---- MODULE Spec2Model ----
(***************************************************************************)
(* Smart Calculator (src/calculator.py): the read-eval-print loop of       *)
(* Calculator.start_calculator with its command, variable and expression   *)
(* paths, the regex tokenizer get_infix, the shunting-yard conversion      *)
(* infix_to_postfix and the stack evaluator evaluate_postfix.              *)
(*                                                                         *)
(* A string is a sequence of one-character strings ("x+1" is               *)
(* <<"x","+","1">>); a token is such a string.  Lines that contain         *)
(* characters outside the classes below, end of input (EOFError of input)  *)
(* and a negative exponent (a ** b with b < 0 leaves integer arithmetic)   *)
(* are outside the model; the last is recorded as the outcome "float".     *)
(***************************************************************************)
EXTENDS Integers, Sequences, FiniteSets, TLC

VARIABLES
    pc,         \* "prompt", "dispatch", "done", "exited" or "crashed"
    line,       \* the line returned by input() for this iteration
    variables,  \* self.variables: name |-> stored decimal string
    total,      \* self.total
    postfix,    \* self.postfix
    printed,    \* what the iteration printed, in order
    raised,     \* the exception raised while the line was processed, or "none"
    locals,     \* infix, operator stack and value stack of the last expression
    again,      \* the line is the previous line entered once more
    prevPrinted \* what the previous iteration printed, when again

vars == <<pc, line, variables, total, postfix, printed, raised, locals, again, prevPrinted>>

(***************************************************************************)
(* Characters and the str predicates the code uses.                        *)
(***************************************************************************)
Digits == {"0", "1", "2", "3", "4", "5", "6", "7", "8", "9"}

Letters == {"a", "b", "e", "f", "h", "i", "l", "o", "p", "t", "x", "y", "z"}

SignChars == {"+", "-"}

MulChars == {"*", "/", "^"}

ParenChars == {"(", ")"}

WordChars == Digits \cup Letters

DigitValue(c) ==
    CASE c = "0" -> 0 [] c = "1" -> 1 [] c = "2" -> 2 [] c = "3" -> 3
      [] c = "4" -> 4 [] c = "5" -> 5 [] c = "6" -> 6 [] c = "7" -> 7
      [] c = "8" -> 8 [] c = "9" -> 9

DigitChar(d) ==
    CASE d = 0 -> "0" [] d = 1 -> "1" [] d = 2 -> "2" [] d = 3 -> "3"
      [] d = 4 -> "4" [] d = 5 -> "5" [] d = 6 -> "6" [] d = 7 -> "7"
      [] d = 8 -> "8" [] d = 9 -> "9"

IsAlpha(s) == Len(s) > 0 /\ \A i \in 1..Len(s) : s[i] \in Letters

IsDigit(s) == Len(s) > 0 /\ \A i \in 1..Len(s) : s[i] \in Digits

IsAlnum(s) == Len(s) > 0 /\ \A i \in 1..Len(s) : s[i] \in WordChars

RECURSIVE Strip(_)
Strip(s) ==
    IF s = <<>> THEN s
    ELSE IF Head(s) = " " THEN Strip(Tail(s))
    ELSE IF s[Len(s)] = " " THEN Strip(SubSeq(s, 1, Len(s) - 1))
    ELSE s

RemoveSpaces(s) == SelectSeq(s, LAMBDA c : c # " ")

RECURSIVE CountChar(_, _)
CountChar(s, c) ==
    IF s = <<>> THEN 0
    ELSE (IF Head(s) = c THEN 1 ELSE 0) + CountChar(Tail(s), c)

Contains(s, c) == \E i \in 1..Len(s) : s[i] = c

\* str.split(sep) for a one-character separator: the segments, in order
RECURSIVE SplitOn(_, _)
SplitOn(s, c) ==
    IF ~Contains(s, c) THEN <<s>>
    ELSE LET k == CHOOSE i \in 1..Len(s) : s[i] = c /\ \A j \in 1..(i - 1) : s[j] # c
         IN  <<SubSeq(s, 1, k - 1)>> \o SplitOn(SubSeq(s, k + 1, Len(s)), c)

\* int(s) of a string already stripped of blanks: an optional sign, then digits
RECURSIVE DigitsValue(_)
DigitsValue(s) ==
    IF s = <<>> THEN 0
    ELSE 10 * DigitsValue(SubSeq(s, 1, Len(s) - 1)) + DigitValue(s[Len(s)])

IsInt(s) ==
    \/ IsDigit(s)
    \/ Len(s) > 1 /\ s[1] \in SignChars /\ IsDigit(Tail(s))

ParseInt(s) ==
    IF s[1] = "-" THEN 0 - DigitsValue(Tail(s))
    ELSE IF s[1] = "+" THEN DigitsValue(Tail(s))
    ELSE DigitsValue(s)

\* str(n)
RECURSIVE NatToStr(_)
NatToStr(n) ==
    IF n < 10 THEN <<DigitChar(n)>>
    ELSE NatToStr(n \div 10) \o <<DigitChar(n % 10)>>

IntToStr(n) == IF n < 0 THEN <<"-">> \o NatToStr(0 - n) ELSE NatToStr(n)

(***************************************************************************)
(* get_infix: re.split on (\w+)?([+-]+)?([*/^]+)?([\(\)])? and the loop    *)
(* that rejects runs of * / ^ and folds runs of + and -.                   *)
(***************************************************************************)
RECURSIVE PrefixLen(_, _)
PrefixLen(s, S) ==
    IF s # <<>> /\ Head(s) \in S THEN 1 + PrefixLen(Tail(s), S) ELSE 0

Drop(s, n) == SubSeq(s, n + 1, Len(s))

\* One match of the pattern at the head of s: the four groups, each possibly
\* empty.  re.split returns the groups of every match and the text between
\* matches; a character no group accepts is such text.
RECURSIVE RegexSplit(_)
RegexSplit(s) ==
    IF s = <<>> THEN <<>>
    ELSE LET w  == PrefixLen(s, WordChars)
             s1 == Drop(s, w)
             g  == PrefixLen(s1, SignChars)
             s2 == Drop(s1, g)
             m  == PrefixLen(s2, MulChars)
             s3 == Drop(s2, m)
             p  == IF s3 # <<>> /\ Head(s3) \in ParenChars THEN 1 ELSE 0
             groups == <<SubSeq(s, 1, w), SubSeq(s1, 1, g), SubSeq(s2, 1, m), SubSeq(s3, 1, p)>>
         IN  IF w + g + m + p = 0
             THEN <<<<Head(s)>>>> \o RegexSplit(Tail(s))
             ELSE SelectSeq(groups, LAMBDA t : t # <<>>) \o RegexSplit(Drop(s3, p))

HasMul(ch) == Contains(ch, "*") \/ Contains(ch, "/") \/ Contains(ch, "^")

HasSign(ch) == Contains(ch, "+") \/ Contains(ch, "-")

\* FoldSigns deciding on the number of characters instead of the number of '-'
FoldSignsByLength(ch) ==
    IF HasSign(ch) /\ Len(ch) > 1
    THEN (IF Len(ch) % 2 = 1 THEN <<"-">> ELSE <<"+">>)
    ELSE ch

\* infix[i] = '-' if ch.count('-') % 2 == 1 else '+'
FoldSigns(ch) ==
    IF HasSign(ch) /\ Len(ch) > 1
    THEN (IF CountChar(ch, "-") % 2 = 1 THEN <<"-">> ELSE <<"+">>)
    ELSE ch

get_infix(expression) ==
    LET split == RegexSplit(RemoveSpaces(expression))
    IN  IF \E i \in 1..Len(split) : HasMul(split[i]) /\ Len(split[i]) > 1
        THEN [raised |-> "InvalidExpressionError", infix |-> <<>>]
        ELSE [raised |-> "none", infix |-> [i \in 1..Len(split) |-> FoldSigns(split[i])]]

(***************************************************************************)
(* infix_to_postfix                                                        *)
(***************************************************************************)
PriorityKeys == {<<"+">>, <<"-">>, <<"*">>, <<"/">>, <<"^">>, <<"(">>}

priority(ch) ==
    CASE ch = <<"+">> -> 1 [] ch = <<"-">> -> 1
      [] ch = <<"*">> -> 2 [] ch = <<"/">> -> 2
      [] ch = <<"^">> -> 3 [] ch = <<"(">> -> 0

Top(stack) == stack[Len(stack)]

Pop(stack) == SubSeq(stack, 1, Len(stack) - 1)

\* while len(stack) != 0 and stack[-1] != '(': postfix.append(stack.pop())
RECURSIVE PopToParen(_)
PopToParen(st) ==
    IF Len(st.stack) # 0 /\ Top(st.stack) # <<"(">>
    THEN PopToParen([st EXCEPT !.stack = Pop(st.stack),
                               !.postfix = Append(st.postfix, Top(st.stack))])
    ELSE st

\* PopNotLower popping only operators of strictly higher priority
RECURSIVE PopHigher(_, _)
PopHigher(ch, st) ==
    IF Len(st.stack) = 0 THEN st
    ELSE IF priority(ch) < priority(Top(st.stack))
    THEN PopHigher(ch, [st EXCEPT !.stack = Pop(st.stack),
                                  !.postfix = Append(st.postfix, Top(st.stack))])
    ELSE st

\* while len(stack) != 0 and priority[ch] <= priority[stack[-1]]: pop to postfix
RECURSIVE PopNotLower(_, _)
PopNotLower(ch, st) ==
    IF Len(st.stack) = 0 THEN st
    ELSE IF Top(st.stack) \notin PriorityKeys THEN [st EXCEPT !.raised = "KeyError"]
    ELSE IF priority(ch) <= priority(Top(st.stack))
    THEN PopNotLower(ch, [st EXCEPT !.stack = Pop(st.stack),
                                    !.postfix = Append(st.postfix, Top(st.stack))])
    ELSE st

\* after the loop of the ')' branch: raise on an empty stack, else stack.pop()
DiscardParen(popped) ==
    IF Len(popped.stack) = 0
    THEN [popped EXCEPT !.raised = "InvalidExpressionError"]
    ELSE [popped EXCEPT !.stack = Pop(popped.stack)]

\* stack.append(ch), unless a priority lookup raised
Push(ch, st) ==
    IF st.raised # "none" THEN st ELSE [st EXCEPT !.stack = Append(st.stack, ch)]

\* the body of `for ch in infix`
ConvertToken(ch, st) ==
    IF IsAlnum(ch) THEN [st EXCEPT !.postfix = Append(st.postfix, ch)]
    ELSE IF ch = <<"(">> THEN Push(ch, st)
    ELSE IF ch = <<")">> THEN DiscardParen(PopToParen(st))
    ELSE IF Len(st.stack) = 0 THEN Push(ch, st)
    ELSE IF ch \notin PriorityKeys \/ Top(st.stack) \notin PriorityKeys
    THEN [st EXCEPT !.raised = "KeyError"]
    ELSE IF priority(ch) > priority(Top(st.stack)) THEN Push(ch, st)
    ELSE Push(ch, PopNotLower(ch, st))

RECURSIVE ConvertFrom(_, _, _)
ConvertFrom(infix, i, st) ==
    IF i > Len(infix) \/ st.raised # "none" THEN st
    ELSE ConvertFrom(infix, i + 1, ConvertToken(infix[i], st))

\* while stack: postfix.append(stack.pop())
RECURSIVE Drain(_)
Drain(st) ==
    IF Len(st.stack) # 0
    THEN Drain([st EXCEPT !.stack = Pop(st.stack),
                          !.postfix = Append(st.postfix, Top(st.stack))])
    ELSE st

\* CheckParen that lets a '(' left in the result through
CheckParenSkipped(drained) == drained

\* if '(' in postfix: raise InvalidExpressionError
CheckParen(drained) ==
    IF \E i \in 1..Len(drained.postfix) : drained.postfix[i] = <<"(">>
    THEN [drained EXCEPT !.raised = "InvalidExpressionError"]
    ELSE drained

\* what follows the for loop, unless the loop raised
AfterConvertLoop(looped) ==
    IF looped.raised # "none" THEN looped ELSE CheckParen(Drain(looped))

\* [raised, postfix, stack]: stack is the operator stack when the call ends
infix_to_postfix(infix) ==
    AfterConvertLoop(ConvertFrom(infix, 1, [raised |-> "none", stack |-> <<>>, postfix |-> <<>>]))

(***************************************************************************)
(* evaluate_postfix                                                        *)
(***************************************************************************)
\* a ** b for b >= 0
RECURSIVE Pow(_, _)
Pow(a, b) == IF b = 0 THEN 1 ELSE a * Pow(a, b - 1)

\* a // b for b # 0: the quotient rounded towards minus infinity
FloorDiv(a, b) ==
    LET na == IF a < 0 THEN 0 - a ELSE a
        nb == IF b < 0 THEN 0 - b ELSE b
        q  == na \div nb
    IN  IF (a < 0) = (b < 0) THEN q
        ELSE IF q * nb = na THEN 0 - q
        ELSE 0 - q - 1

OperatorString == <<"+", "-", "*", "/", "^">>

\* ch in '+-*/^': ch is a substring
IsOperatorToken(ch) ==
    \E i \in 1..(Len(OperatorString) + 1) :
        /\ i + Len(ch) - 1 <= Len(OperatorString)
        /\ SubSeq(OperatorString, i, i + Len(ch) - 1) = ch

\* ApplyOperator with the operands of '-' taken in the wrong order
ApplyOperatorSwapped(ch, a, b, stack) ==
    IF ch = <<"+">> THEN [raised |-> "none", stack |-> Append(stack, a + b)]
    ELSE IF ch = <<"-">> THEN [raised |-> "none", stack |-> Append(stack, b - a)]
    ELSE IF ch = <<"*">> THEN [raised |-> "none", stack |-> Append(stack, a * b)]
    ELSE IF ch = <<"/">> THEN
        IF b = 0 THEN [raised |-> "ZeroDivisionError", stack |-> stack]
        ELSE [raised |-> "none", stack |-> Append(stack, a \div b)]
    ELSE [raised |-> "none", stack |-> stack]

\* the if/elif chain on ch with a and b popped; stack is what is left below them
ApplyOperator(ch, a, b, stack) ==
    IF ch = <<"+">> THEN [raised |-> "none", stack |-> Append(stack, a + b)]
    ELSE IF ch = <<"-">> THEN [raised |-> "none", stack |-> Append(stack, a - b)]
    ELSE IF ch = <<"*">> THEN [raised |-> "none", stack |-> Append(stack, a * b)]
    ELSE IF ch = <<"/">> THEN
        IF b = 0 THEN [raised |-> "ZeroDivisionError", stack |-> stack]
        ELSE [raised |-> "none", stack |-> Append(stack, FloorDiv(a, b))]
    ELSE IF ch = <<"^">> THEN
        IF b < 0 THEN [raised |-> IF a = 0 THEN "ZeroDivisionError" ELSE "float", stack |-> stack]
        ELSE [raised |-> "none", stack |-> Append(stack, Pow(a, b))]
    ELSE [raised |-> "none", stack |-> stack]

\* b = stack.pop(); a = stack.pop(), or 0 when that pop raises IndexError
PopOperands(ch, stack) ==
    IF Len(stack) = 0 THEN [raised |-> "IndexError", stack |-> stack]
    ELSE LET b    == Top(stack)
             rest == Pop(stack)
         IN  IF Len(rest) = 0 THEN ApplyOperator(ch, 0, b, rest)
             ELSE ApplyOperator(ch, Top(rest), b, Pop(rest))

\* the body of `for ch in self.postfix`
EvaluateToken(ch, st, table) ==
    IF IsOperatorToken(ch) THEN PopOperands(ch, st.stack)
    ELSE IF IsDigit(ch) THEN [st EXCEPT !.stack = Append(st.stack, DigitsValue(ch))]
    ELSE IF ch \in DOMAIN table
    THEN [st EXCEPT !.stack = Append(st.stack, ParseInt(table[ch]))]
    ELSE [st EXCEPT !.raised = "UnknownVariableError"]

RECURSIVE EvaluateFrom(_, _, _, _)
EvaluateFrom(pf, i, st, table) ==
    IF i > Len(pf) \/ st.raised # "none" THEN st
    ELSE EvaluateFrom(pf, i + 1, EvaluateToken(pf[i], st, table), table)

\* return stack.pop(), unless the loop raised
ReturnTop(looped) ==
    IF looped.raised # "none"
    THEN [raised |-> looped.raised, stack |-> looped.stack, value |-> 0]
    ELSE IF Len(looped.stack) = 0
    THEN [raised |-> "IndexError", stack |-> looped.stack, value |-> 0]
    ELSE [raised |-> "none", stack |-> looped.stack, value |-> Top(looped.stack)]

\* [raised, stack, value]: stack is the value stack when the loop ends, value
\* what the call returns
evaluate_postfix(pf, table) ==
    ReturnTop(EvaluateFrom(pf, 1, [raised |-> "none", stack |-> <<>>], table))

(***************************************************************************)
(* The handlers and the body of the loop of start_calculator.  A handler   *)
(* returns the exception it raises ("none" when it returns), what it       *)
(* printed and the session state it leaves.                                *)
(***************************************************************************)
\* a printed line: a fixed message, or the text of a value
Say(kind, text) == [kind |-> kind, msg |-> "", text |-> text]

Message(kind, msg) == [kind |-> kind, msg |-> msg, text |-> <<>>]

\* __str__ of the exception classes
ErrorMessage(exc) ==
    CASE exc = "InvalidExpressionError" -> "Invalid expression"
      [] exc = "UnknownCommandError" -> "Unknown command"
      [] exc = "InvalidIdentifierError" -> "Invalid identifier"
      [] exc = "UnknownVariableError" -> "Unknown variable"
      [] exc = "InvalidAssignmentError" -> "Invalid assignment"

\* stage: how far handle_expression got; converted: what infix_to_postfix returned
NoLocals == [stage |-> "none", infix |-> <<>>, opStack |-> <<>>, converted |-> <<>>, valStack |-> <<>>]

EmptyTable == [name \in {} |-> <<>>]

Exit == <<"/", "e", "x", "i", "t">>

Help == <<"/", "h", "e", "l", "p">>

handle_command(command) ==
    IF command = Exit THEN [raised |-> "none", printed |-> <<Message("text", "Bye!")>>, value |-> -1]
    ELSE IF command = Help THEN [raised |-> "none", printed |-> <<Message("text", "__doc__")>>, value |-> 0]
    ELSE [raised |-> "UnknownCommandError", printed |-> <<>>, value |-> 0]

\* Store that rebinds self.variables to a table holding the one entry
StoreAlone(table, variable, value) == [name \in {variable} |-> IntToStr(value)]

\* self.variables[variable] = str(value)
Store(table, variable, value) ==
    [name \in DOMAIN table \cup {variable} |->
        IF name = variable THEN IntToStr(value) ELSE table[name]]

handle_variable(expression, table) ==
    LET segments == SplitOn(expression, "=")
    IN  IF Len(segments) > 2
        THEN [raised |-> "InvalidAssignmentError", printed |-> <<>>, variables |-> table]
        ELSE IF Len(segments) = 1 THEN
            LET variable == Strip(segments[1])
            IN  IF ~IsAlpha(variable)
                THEN [raised |-> "InvalidIdentifierError", printed |-> <<>>, variables |-> table]
                ELSE IF variable \in DOMAIN table
                THEN [raised |-> "none", printed |-> <<Say("value", table[variable])>>,
                      variables |-> table]
                ELSE [raised |-> "UnknownVariableError", printed |-> <<>>, variables |-> table]
        ELSE
            LET variable == Strip(segments[1])
                given    == Strip(segments[2])
                value    == IF given \in DOMAIN table THEN table[given] ELSE given
            IN  IF ~IsAlpha(variable)
                THEN [raised |-> "InvalidIdentifierError", printed |-> <<>>, variables |-> table]
                ELSE IF ~IsInt(value)
                THEN [raised |-> "InvalidAssignmentError", printed |-> <<>>, variables |-> table]
                ELSE [raised |-> "none", printed |-> <<>>,
                      variables |-> Store(table, variable, ParseInt(value))]

\* self.total = self.evaluate_postfix(), with self.postfix == conv.postfix
Evaluated(infix, conv, ev, tot) ==
    IF ev.raised # "none"
    THEN [raised |-> ev.raised, total |-> tot, postfix |-> conv.postfix,
          locals |-> [stage |-> "converted", infix |-> infix, opStack |-> conv.stack,
                      converted |-> conv.postfix, valStack |-> ev.stack]]
    ELSE [raised |-> "none", total |-> ev.value, postfix |-> <<>>,
          locals |-> [stage |-> "evaluated", infix |-> infix, opStack |-> conv.stack,
                      converted |-> conv.postfix, valStack |-> ev.stack]]

\* self.postfix = self.infix_to_postfix(infix)
Converted(infix, conv, table, tot, pf) ==
    IF conv.raised # "none"
    THEN [raised |-> conv.raised, total |-> tot, postfix |-> pf,
          locals |-> [stage |-> "tokenized", infix |-> infix, opStack |-> conv.stack,
                      converted |-> <<>>, valStack |-> <<>>]]
    ELSE Evaluated(infix, conv, evaluate_postfix(conv.postfix, table), tot)

\* infix = self.get_infix(expression)
Tokenized(tokens, table, tot, pf) ==
    IF tokens.raised # "none"
    THEN [raised |-> tokens.raised, total |-> tot, postfix |-> pf, locals |-> NoLocals]
    ELSE Converted(tokens.infix, infix_to_postfix(tokens.infix), table, tot, pf)

\* [raised, total, postfix, locals]: self.postfix is assigned when the
\* conversion returns and cleared when the evaluation returns
handle_expression(expression, table, tot, pf) ==
    Tokenized(get_infix(expression), table, tot, pf)

\* the loop without its reset of self.total
TotalKept(tot) == tot

\* self.total = 0 after print(self.total)
TotalAfterPrint(tot) == 0

\* the state a line leaves when nothing is raised, printed or assigned
Untouched(table, tot, pf) ==
    [pc |-> "done", raised |-> "none", printed |-> <<>>, variables |-> table,
     total |-> tot, postfix |-> pf, locals |-> NoLocals]

\* lines 39-46: the command path
CommandPath(cmd, same) ==
    IF cmd.raised = "UnknownCommandError"
    THEN [same EXCEPT !.raised = cmd.raised,
                      !.printed = <<Message("error", ErrorMessage(cmd.raised))>>]
    ELSE [same EXCEPT !.printed = cmd.printed,
                      !.pc = IF cmd.value = -1 THEN "exited" ELSE "done"]

\* lines 47-55: the variable path
VariablePath(var, same) ==
    IF var.raised \in {"InvalidIdentifierError", "UnknownVariableError", "InvalidAssignmentError"}
    THEN [same EXCEPT !.raised = var.raised,
                      !.printed = var.printed \o <<Message("error", ErrorMessage(var.raised))>>]
    ELSE [same EXCEPT !.printed = var.printed, !.variables = var.variables]

\* ExpressionPath whose print(self.total) runs after a handled error too
ExpressionPathAlwaysPrints(exp, same) ==
    IF exp.raised \in {"InvalidExpressionError", "UnknownVariableError"}
    THEN [same EXCEPT !.raised = exp.raised, !.total = exp.total, !.postfix = exp.postfix,
                      !.locals = exp.locals,
                      !.printed = <<Message("error", ErrorMessage(exp.raised)),
                                    Say("value", IntToStr(exp.total))>>]
    ELSE IF exp.raised # "none"
    THEN [same EXCEPT !.raised = exp.raised, !.total = exp.total, !.postfix = exp.postfix,
                      !.locals = exp.locals, !.pc = "crashed"]
    ELSE [same EXCEPT !.total = 0, !.postfix = exp.postfix, !.locals = exp.locals,
                      !.printed = <<Say("value", IntToStr(exp.total))>>]

\* lines 56-65: the expression path
ExpressionPath(exp, same) ==
    IF exp.raised \in {"InvalidExpressionError", "UnknownVariableError"}
    THEN [same EXCEPT !.raised = exp.raised, !.total = exp.total, !.postfix = exp.postfix,
                      !.locals = exp.locals,
                      !.printed = <<Message("error", ErrorMessage(exp.raised))>>]
    ELSE IF exp.raised # "none"
    THEN [same EXCEPT !.raised = exp.raised, !.total = exp.total, !.postfix = exp.postfix,
                      !.locals = exp.locals,
                      !.pc = IF exp.raised = "float" THEN "float" ELSE "crashed"]
    ELSE [same EXCEPT !.total = TotalAfterPrint(exp.total), !.postfix = exp.postfix,
                      !.locals = exp.locals,
                      !.printed = <<Say("value", IntToStr(exp.total))>>]

\* the paths of a stripped, non-empty line
Route(expression, table, tot, pf, same) ==
    IF expression[1] = "/" THEN CommandPath(handle_command(expression), same)
    ELSE IF Contains(expression, "=") \/ IsAlpha(expression)
    THEN VariablePath(handle_variable(expression, table), same)
    ELSE ExpressionPath(handle_expression(expression, table, tot, pf), same)

\* One iteration of `while True` on the line input() returned.  pc is "done"
\* when the loop goes round, "exited" after break, "crashed" when an
\* exception no except clause names leaves start_calculator.
LoopBody(ln, table, tot, pf) ==
    IF Strip(ln) = <<>> THEN Untouched(table, tot, pf)
    ELSE Route(Strip(ln), table, tot, pf, Untouched(table, tot, pf))

(***************************************************************************)
(* The lines the user may enter.                                           *)
(***************************************************************************)
MaxLineLen == 3

Alphabet == {"1", "2", "+", "-", "*", "/", "(", ")"}

StringsUpTo(chars, n) == UNION {[1..k -> chars] : k \in 0..n}

\* the lines of the documented examples, a side-by-side operand pair and a zero divisor
ExampleLines ==
    {<<"2", "^", "3", "^", "2">>,
     <<"7", "/", "2">>,
     <<"-", "7", "/", "2">>,
     <<"x", "=", "5">>,
     <<"x", "+", "1">>,
     <<"x">>,
     <<"(", "1", "+", "2">>,
     <<"1", "+", "2", ")">>,
     <<"1", "*", "*", "2">>,
     <<"1", "/", "/", "2">>,
     <<"1", "+", "-", "2">>,
     <<"1", "-", "-", "2">>,
     <<"x", " ", "=", " ", "1", "0">>,
     <<"y", " ", "=", " ", "x">>,
     <<"y">>,
     <<"z", "+", "1">>,
     <<"1", "x", " ", "=", " ", "5">>,
     <<"a", "=", "b", "=", "5">>,
     <<"/", "e", "x", "i", "t">>,
     <<"/", "h", "e", "l", "p">>,
     <<"/", "f", "o", "o">>,
     <<"(", "1", ")", "(", "2", ")">>,
     <<"1", "/", "0">>}

Lines == ExampleLines \cup StringsUpTo(Alphabet, MaxLineLen)

(***************************************************************************)
(* The state machine: input() returns a line, the loop body processes it,  *)
(* the loop goes round.                                                    *)
(***************************************************************************)
Init ==
    /\ pc = "prompt"
    /\ line = <<>>
    /\ variables = EmptyTable
    /\ total = 0
    /\ postfix = <<>>
    /\ printed = <<>>
    /\ raised = "none"
    /\ locals = NoLocals
    /\ again = FALSE
    /\ prevPrinted = <<>>

\* expression = input()
ReadLine(from) ==
    /\ pc = "prompt"
    /\ \E ln \in from : line' = ln
    /\ pc' = "dispatch"
    /\ UNCHANGED <<variables, total, postfix, printed, raised, locals, again, prevPrinted>>

Dispatch ==
    /\ pc = "dispatch"
    /\ LET out == LoopBody(line, variables, total, postfix)
       IN  /\ pc' = out.pc
           /\ variables' = out.variables
           /\ total' = out.total
           /\ postfix' = out.postfix
           /\ printed' = out.printed
           /\ raised' = out.raised
           /\ locals' = out.locals
    /\ UNCHANGED <<line, again, prevPrinted>>

\* back at the top of `while True`: what was observed of the last line is dropped
NextIteration ==
    /\ pc = "done"
    /\ pc' = "prompt"
    /\ line' = <<>>
    /\ printed' = <<>>
    /\ raised' = "none"
    /\ locals' = NoLocals
    /\ again' = FALSE
    /\ prevPrinted' = <<>>
    /\ UNCHANGED <<variables, total, postfix>>

Read == ReadLine(Lines)

Next == Read \/ Dispatch \/ NextIteration

Spec == Init /\ [][Next]_vars

(***************************************************************************)
(* Properties of the loop (specification Spec).                            *)
(***************************************************************************)
HandledErrors ==
    {"InvalidExpressionError", "UnknownCommandError", "InvalidIdentifierError",
     "UnknownVariableError", "InvalidAssignmentError"}

\* the loop is back at input() once a line is processed and nothing ended it
AtInput == pc \in {"prompt", "done"}

Value(n) == Say("value", IntToStr(n))

MinusSevenHalves == <<"-", "7", "/", "2">>

\* C2, as stated: the line -7/2 prints -4, the floor of (-7) / 2.
C2_MinusSevenHalvesIsMinusFour ==
    pc = "done" /\ line = MinusSevenHalves => printed = <<Value(-4)>>

\* C2, amended: the line -7/2 prints -3.  The leading minus is an operator
\* whose missing left operand is 0 and which is applied after the division
\* of higher priority: 0 - (7 // 2).
C2_MinusSevenHalvesIsMinusThree ==
    pc \notin {"prompt", "dispatch"} /\ line = MinusSevenHalves =>
        /\ pc = "done"
        /\ locals.converted = <<<<"7">>, <<"2">>, <<"/">>, <<"-">>>>
        /\ printed = <<Say("value", <<"-", "3">>)>>

C2_Witness == pc = "done" /\ line = MinusSevenHalves /\ raised = "none"

\* C3: the loop ends only by /exit: a processed /exit line ends it after
\* printing Bye!, and any other line leaves the loop running, whatever failed.
C3_LoopEndsOnlyOnExit ==
    /\ pc = "exited" => Strip(line) = Exit /\ printed = <<Message("text", "Bye!")>>
    /\ pc \notin {"prompt", "dispatch"} /\ Strip(line) # Exit => pc = "done"

\* one iteration that fails with a handled error, or prints an error message
C4_ErrorStep ==
    pc = "dispatch" /\ (raised' \in HandledErrors \/ \E i \in 1..Len(printed') : printed'[i].kind = "error") =>
        /\ raised' \in HandledErrors
        /\ printed' = <<Message("error", ErrorMessage(raised'))>>
        /\ variables' = variables
        /\ total' = total

\* C4: a line that fails with one of the five handled errors prints exactly
\* the one message of that error and leaves self.variables and self.total as
\* they were.
C4_ErrorsPrintOnceAndKeepState == [][C4_ErrorStep]_vars

C4_Witness ==
    /\ pc = "done"
    /\ raised = "UnknownVariableError"
    /\ locals.stage = "converted"
    /\ DOMAIN variables # {}
    /\ printed = <<Message("error", "Unknown variable")>>

\* the right-hand side of an assignment: the value of the variable it names, else its own
AssignedValue(rhs, table) ==
    IF rhs \in DOMAIN table THEN ParseInt(table[rhs]) ELSE ParseInt(rhs)

\* what one iteration does to self.variables, and what a lookup prints
C5_TableStep ==
    pc = "dispatch" =>
        LET e   == Strip(line)
            seg == SplitOn(e, "=")
        IN  /\ DOMAIN variables \subseteq DOMAIN variables'
            /\ IF e # <<>> /\ e[1] # "/" /\ Len(seg) = 2 /\ raised' = "none"
               THEN LET name == Strip(seg[1])
                        val  == AssignedValue(Strip(seg[2]), variables)
                    IN  /\ DOMAIN variables' = DOMAIN variables \cup {name}
                        /\ variables'[name] = IntToStr(val)
                        /\ ParseInt(variables'[name]) = val
                        /\ \A n \in DOMAIN variables \ {name} : variables'[n] = variables[n]
               ELSE variables' = variables
            /\ IsAlpha(e) =>
                   IF e \in DOMAIN variables
                   THEN printed' = <<Say("value", variables[e])>> /\ raised' = "none"
                   ELSE printed' = <<Message("error", "Unknown variable")>>
                        /\ raised' = "UnknownVariableError"

\* C5: the table changes only by a successful assignment `name = rhs`, which
\* binds name to the integer rhs denotes (the value rhs holds now, when rhs is
\* an assigned name) and touches no other entry; nothing is ever deleted; a
\* lookup prints the stored integer, or fails with UnknownVariable for a name
\* never assigned.
C5_LookupPrintsLastAssignment == [][C5_TableStep]_vars

\* x = 10, y = x, then y prints 10
C5_Witness ==
    /\ pc = "done"
    /\ line = <<"y">>
    /\ <<"x">> \in DOMAIN variables
    /\ printed = <<Say("value", <<"1", "0">>)>>

\* C9: self.postfix is empty whenever the loop is at input().
C9_PostfixEmptyAtInput == AtInput => postfix = <<>>

\* C10: when evaluate_postfix returns, the value stack holds exactly one
\* value, the one returned and printed.
C10_OneValueLeft ==
    locals.stage = "evaluated" =>
        /\ Len(locals.valStack) = 1
        /\ printed = <<Value(locals.valStack[1])>>

(***************************************************************************)
(* The same line entered twice in a row (specification SpecAgain).         *)
(***************************************************************************)
MaxAgainLen == 2

AgainLines == ExampleLines \cup StringsUpTo(Alphabet, MaxAgainLen)

ReadFirst == ReadLine(AgainLines)

\* input() returns the line it returned in the iteration before
ReadAgain ==
    /\ pc = "done"
    /\ ~again
    /\ pc' = "dispatch"
    /\ again' = TRUE
    /\ prevPrinted' = printed
    /\ printed' = <<>>
    /\ raised' = "none"
    /\ locals' = NoLocals
    /\ UNCHANGED <<line, variables, total, postfix>>

NextAgain == ReadFirst \/ ReadAgain \/ Dispatch \/ NextIteration

SpecAgain == Init /\ [][NextAgain]_vars

\* the line takes the expression path of the loop
IsExpressionLine(ln) ==
    LET e == Strip(ln)
    IN  e # <<>> /\ e[1] # "/" /\ ~Contains(e, "=") /\ ~IsAlpha(e)

\* C8: an expression line entered twice in a row prints the same both times,
\* and self.total is 0 whenever the loop is at input().
C8_SameResultTwice ==
    /\ AtInput => total = 0
    /\ pc = "done" /\ again /\ IsExpressionLine(line) => printed = prevPrinted

\* x = 5, then x+1 twice: 6 both times
C8_Witness ==
    /\ pc = "done"
    /\ again
    /\ line = <<"x", "+", "1">>
    /\ prevPrinted = <<Say("value", <<"6">>)>>
    /\ printed = prevPrinted
    /\ total = 0

(***************************************************************************)
(* get_infix on runs of signs (specification SpecSigns).                   *)
(***************************************************************************)
MaxSignLen == 5

SignAlphabet == {"1", "2", "+", "-", "*"}

ReadSigns == ReadLine(StringsUpTo(SignAlphabet, MaxSignLen) \ {<<>>})

NextSigns == ReadSigns \/ Dispatch \/ NextIteration

SpecSigns == Init /\ [][NextSigns]_vars

CharClass(c) ==
    IF c \in WordChars THEN "word"
    ELSE IF c \in SignChars THEN "sign"
    ELSE IF c \in MulChars THEN "mul"
    ELSE "paren"

\* the maximal runs of characters of one class, a parenthesis always alone
RECURSIVE Runs(_)
Runs(s) ==
    IF s = <<>> THEN <<>>
    ELSE LET same == {n \in 1..Len(s) : \A i \in 1..n : CharClass(s[i]) = CharClass(s[1])}
             n    == IF CharClass(s[1]) = "paren" THEN 1
                     ELSE CHOOSE k \in same : \A j \in same : j <= k
         IN  <<SubSeq(s, 1, n)>> \o Runs(SubSeq(s, n + 1, Len(s)))

Minuses(run) == Cardinality({i \in 1..Len(run) : run[i] = "-"})

\* a run of two or more signs as one sign, by the parity of its '-'
Folded(run) ==
    IF Len(run) >= 2 /\ CharClass(run[1]) = "sign"
    THEN (IF Minuses(run) % 2 = 1 THEN <<"-">> ELSE <<"+">>)
    ELSE run

LongMulRun(ln) == \E i \in 1..Len(Runs(ln)) : CharClass(Runs(ln)[i][1]) = "mul" /\ Len(Runs(ln)[i]) >= 2

\* C6: get_infix returns the runs of the line with every run of two or more
\* signs folded by the parity of its '-', a lone sign unchanged; it raises
\* InvalidExpression only for a run of two or more of * / ^; so 1+-2 prints -1
\* and 1--2 prints 3.
C6_SignRunsFold ==
    pc \notin {"prompt", "dispatch"} /\ IsExpressionLine(line) =>
        /\ (locals.stage = "none") = LongMulRun(line)
        /\ locals.stage = "none" => raised = "InvalidExpressionError"
        /\ locals.stage # "none" =>
               locals.infix = [i \in 1..Len(Runs(line)) |-> Folded(Runs(line)[i])]
        /\ line = <<"1", "+", "-", "2">> => printed = <<Say("value", <<"-", "1">>)>>
        /\ line = <<"1", "-", "-", "2">> => printed = <<Value(3)>>

\* 1-+-2: a run of three signs with two '-' folds to '+'
C6_Witness ==
    /\ pc = "done"
    /\ line = <<"1", "-", "+", "-", "2">>
    /\ locals.infix = <<<<"1">>, <<"+">>, <<"2">>>>
    /\ printed = <<Value(3)>>

(***************************************************************************)
(* infix_to_postfix on parentheses (specification SpecParens).             *)
(***************************************************************************)
MaxParenLen == 5

ParenAlphabet == {"1", "2", "+", "*", "(", ")"}

ReadParens == ReadLine(StringsUpTo(ParenAlphabet, MaxParenLen) \ {<<>>})

NextParens == ReadParens \/ Dispatch \/ NextIteration

SpecParens == Init /\ [][NextParens]_vars

\* '(' minus ')' among the first n tokens
Depth(tokens, n) ==
    Cardinality({i \in 1..n : tokens[i] = <<"(">>}) - Cardinality({i \in 1..n : tokens[i] = <<")">>})

Balanced(tokens) ==
    /\ \A n \in 1..Len(tokens) : Depth(tokens, n) >= 0
    /\ Depth(tokens, Len(tokens)) = 0

\* C7: infix_to_postfix fails with InvalidExpression exactly when the
\* parentheses of its tokens are unbalanced; when it returns, the operator
\* stack is empty and the result holds no parenthesis.
C7_FailsIffUnbalanced ==
    locals.stage # "none" =>
        /\ (locals.stage = "tokenized") = ~Balanced(locals.infix)
        /\ locals.stage = "tokenized" => raised = "InvalidExpressionError"
        /\ locals.stage # "tokenized" =>
               /\ locals.opStack = <<>>
               /\ \A i \in 1..Len(locals.converted) :
                      locals.converted[i] \notin {<<"(">>, <<")">>}

\* (1+2 is refused: its '(' is never closed
C7_Witness ==
    /\ pc = "done"
    /\ line = <<"(", "1", "+", "2">>
    /\ locals.stage = "tokenized"
    /\ raised = "InvalidExpressionError"

(***************************************************************************)
(* Well-formed expressions (specification SpecWF).                         *)
(***************************************************************************)
MaxWFLen == 7

WFOperands == {"1", "2"}

Operators == {"+", "-", "*", "/", "^"}

\* the well-formed expressions of exactly n characters: an operand, a
\* parenthesised expression, or two expressions around an operator
WFOfLen[n \in 0..MaxWFLen] ==
    IF n = 0 THEN {}
    ELSE IF n = 1 THEN {<<d>> : d \in WFOperands}
    ELSE {<<"(">> \o e \o <<")">> : e \in WFOfLen[n - 2]}
         \cup UNION {{a \o <<op>> \o b : a \in WFOfLen[k], b \in WFOfLen[n - 1 - k], op \in Operators}
                     : k \in 1..(n - 2)}

\* 2^3^2 and 7/2, the documented examples
WFExamples == {<<"2", "^", "3", "^", "2">>, <<"7", "/", "2">>}

WFLines == WFExamples \cup UNION {WFOfLen[n] : n \in 1..MaxWFLen}

\* the operators of the given characters that stand outside every parenthesis
TopLevel(s, ops) ==
    {i \in 1..Len(s) :
        /\ s[i] \in ops
        /\ Cardinality({j \in 1..i : s[j] = "("}) = Cardinality({j \in 1..i : s[j] = ")"})}

Last(S) == CHOOSE i \in S : \A j \in S : j <= i

\* where the expression splits: at its last operator of lowest precedence
\* outside parentheses (every operator groups left to right); 0 if there is none
SplitAt(s) ==
    IF TopLevel(s, {"+", "-"}) # {} THEN Last(TopLevel(s, {"+", "-"}))
    ELSE IF TopLevel(s, {"*", "/"}) # {} THEN Last(TopLevel(s, {"*", "/"}))
    ELSE IF TopLevel(s, {"^"}) # {} THEN Last(TopLevel(s, {"^"}))
    ELSE 0

RECURSIVE RefPower(_, _)
RefPower(a, b) == IF b <= 0 THEN 1 ELSE RefPower(a, b - 1) * a

\* the integer q with q * b <= a < (q + 1) * b, for b > 0, and its mirror for b < 0
RefFloor(a, b) ==
    LET m == IF a < 0 THEN 0 - a ELSE a
    IN  IF b > 0 THEN CHOOSE q \in (0 - m)..m : q * b <= a /\ a < (q + 1) * b
        ELSE CHOOSE q \in (0 - m)..m : q * b >= a /\ a > (q + 1) * b

RefApply(op, a, b) ==
    CASE op = "+" -> a + b
      [] op = "-" -> a - b
      [] op = "*" -> a * b
      [] op = "/" -> RefFloor(a, b)
      [] op = "^" -> RefPower(a, b)

\* the value of a well-formed expression
RECURSIVE RefValue(_)
RefValue(s) ==
    IF Len(s) = 1 THEN DigitValue(s[1])
    ELSE IF SplitAt(s) = 0 THEN RefValue(SubSeq(s, 2, Len(s) - 1))
    ELSE RefApply(s[SplitAt(s)], RefValue(SubSeq(s, 1, SplitAt(s) - 1)),
                  RefValue(SubSeq(s, SplitAt(s) + 1, Len(s))))

\* no divisor is zero and no exponent negative, anywhere in the expression
RECURSIVE RefDefined(_)
RefDefined(s) ==
    IF Len(s) = 1 THEN TRUE
    ELSE IF SplitAt(s) = 0 THEN RefDefined(SubSeq(s, 2, Len(s) - 1))
    ELSE /\ RefDefined(SubSeq(s, 1, SplitAt(s) - 1))
         /\ RefDefined(SubSeq(s, SplitAt(s) + 1, Len(s)))
         /\ s[SplitAt(s)] = "/" => RefValue(SubSeq(s, SplitAt(s) + 1, Len(s))) # 0
         /\ s[SplitAt(s)] = "^" => RefValue(SubSeq(s, SplitAt(s) + 1, Len(s))) >= 0

ReadWF == ReadLine({ln \in WFLines : RefDefined(ln)})

NextWF == ReadWF \/ Dispatch \/ NextIteration

SpecWF == Init /\ [][NextWF]_vars

\* C1: a well-formed expression with no zero divisor and no negative exponent
\* evaluates to its value under the precedence ^ over * / over + -, every
\* operator grouping left to right, / the floor division.
C1_WellFormedValue ==
    pc \notin {"prompt", "dispatch"} =>
        /\ pc = "done"
        /\ locals.stage = "evaluated"
        /\ Len(locals.valStack) = 1
        /\ locals.valStack[1] = RefValue(line)
        /\ printed = <<Value(RefValue(line))>>
        /\ line = <<"2", "^", "3", "^", "2">> => printed = <<Say("value", <<"6", "4">>)>>
        /\ line = <<"7", "/", "2">> => printed = <<Say("value", <<"3">>)>>

\* 2-(1-2) is 3: the parentheses group against the left-to-right reading
C1_Witness ==
    /\ pc = "done"
    /\ line = <<"2", "-", "(", "1", "-", "2", ")">>
    /\ printed = <<Say("value", <<"3">>)>>

====
